---- MODULE Spec2Model ----
(***************************************************************************)
(* A model of beartype's PEP-compliant type hint getters                   *)
(* (beartype/_util/hint/pep/utilhintpepget.py) and of the PEP 484 reducers *)
(* (beartype/_util/hint/pep/proposal/pep484/utilpep484.py).                *)
(*                                                                         *)
(* A hint is a record of what the getters read from the object: the        *)
(* verdicts of the tester functions they call, the dunder attributes they  *)
(* access and the tokens of repr(hint).  Python values are records         *)
(* [tag, items, name]; an attribute is a set holding its value, empty when *)
(* the object does not define the attribute.                               *)
(***************************************************************************)
EXTENDS Naturals, Sequences, FiniteSets, TLC

VARIABLES
    pyver,   \* the active Python interpreter: 36, 37 (3.7 and 3.8) or 39 (>= 3.9)
    hint,    \* the hint the caller passes
    cache,   \* the memoization cache of get_hint_pep_sign: hint -> sign
    last,    \* the last call that completed: its operation, outcome and trace
    passed,  \* the arguments of the last call other than the hint
    emitted, \* the warnings the last call issued, in order
    typecache, \* the memoization cache of get_hint_pep_generic_type_or_none
    threads,   \* the get_hint_pep_sign call each thread is in, and where in it
    requested  \* what an observer of the warnings has counted so far

vars == <<pyver, hint, cache, last, passed, emitted, typecache, threads, requested>>

\* ------------------------------------------------------------ Python values
PyNone == [tag |-> "None", items |-> <<>>, name |-> ""]

PyTuple(s) == [tag |-> "tuple", items |-> s, name |-> ""]

PyObj(n) == [tag |-> "object", items |-> <<>>, name |-> n]

PyStr(t) == [tag |-> "str", items |-> <<>>, name |-> t]

PyTrue == [tag |-> "bool", items |-> <<>>, name |-> "True"]

\* The hint object h as a value: the object itself, not a copy of it
PyHint(h) == [tag |-> "hint", items |-> <<h>>, name |-> h.id]

\* bool(value): None and the empty tuple are false, every other object true
Truthy(v) == IF v.tag = "None" THEN FALSE
             ELSE IF v.tag = "tuple" THEN Len(v.items) > 0
             ELSE TRUE

\* x or y
PyOr(x, y) == IF Truthy(x) THEN x ELSE y

\* getattr(object, name, default) on an attribute held as a set
GetAttr(attr, default) == IF attr = {} THEN default ELSE CHOOSE v \in attr : TRUE

\* ------------------------------------------------------------ outcomes
NoMsg == [repr |-> <<>>, path |-> <<>>]

Return(v) == [ok |-> TRUE, val |-> v, exc |-> "", msg |-> NoMsg]

Raise(e, m) == [ok |-> FALSE, val |-> PyNone, exc |-> e, msg |-> m]

\* ------------------------------------------------------------ str.partition
\* Index of the first occurrence of token t in s, 0 when there is none
FirstIndex(s, t) ==
    IF \E i \in 1..Len(s) : s[i] = t
    THEN CHOOSE i \in 1..Len(s) : s[i] = t /\ \A j \in 1..(i - 1) : s[j] # t
    ELSE 0

\* s.partition(t): <<head, separator, tail>>
Partition(s, t) ==
    LET i == FirstIndex(s, t)
    IN  IF i = 0 THEN <<s, <<>>, <<>>>>
        ELSE <<SubSeq(s, 1, i - 1), <<t>>, SubSeq(s, i + 1, Len(s))>>

\* ------------------------------------------------------------ interpreter
\* IS_PYTHON_3_6, IS_PYTHON_AT_LEAST_3_7 and IS_PYTHON_AT_LEAST_3_9 of the
\* running interpreter
PyVersions == {36, 37, 39}

IS_PYTHON_3_6(v) == v = 36

IS_PYTHON_AT_LEAST_3_7(v) == v >= 37

IS_PYTHON_AT_LEAST_3_9(v) == v >= 39

\* ------------------------------------------------------------ data of the code
\* The modules whose attributes are signs
HINT_PEP_MODULE_NAMES == {<<"typing">>, <<"typing_extensions">>}

\* Bad typing names to good typing names
HINT_PEP_TYPING_NAME_BAD_TO_GOOD ==
    (<<"AbstractContextManager">> :> <<"ContextManager">>) @@
    (<<"AbstractAsyncContextManager">> :> <<"AsyncContextManager">>)

\* dict.get(key, default)
DictGet(d, k, default) == IF k \in DOMAIN d THEN d[k] ELSE default

\* The classes that are signs as they are (by identity)
HINT_PEP_SIGNS_TYPE == {"typing.TypeVar", "HintGenericSubscriptedType"}

NoneType == PyObj("NoneType")

Generic == PyObj("typing.Generic")

NewType == PyObj("typing.NewType")

TypeVar == PyObj("typing.TypeVar")

HINT_PEP484_TYPE_FORWARDREF == PyObj("typing.ForwardRef")

\* The public attributes of the hinting modules: attribute name -> object
ModuleNamespace ==
    (<<"typing">> :>
        ( (<<"Union">> :> "typing.Union") @@
          (<<"List">> :> "typing.List") @@
          (<<"Any">> :> "typing.Any") @@
          (<<"ContextManager">> :> "typing.ContextManager") @@
          (<<"AsyncContextManager">> :> "typing.AsyncContextManager") @@
          (<<"Generic">> :> "typing.Generic") @@
          (<<"NewType">> :> "typing.NewType") @@
          (<<"TypeVar">> :> "typing.TypeVar") @@
          (<<"Iterable">> :> "typing.Iterable") @@
          (<<"Pattern">> :> "typing.Pattern") @@
          (<<"Match">> :> "typing.Match") )) @@
    (<<"typing_extensions">> :>
        ( (<<"Annotated">> :> "typing_extensions.Annotated") @@
          (<<"Union">> :> "typing.Union") ))

\* getattr(module, name, None) of an imported hinting module
ModuleGetAttr(module, attr) ==
    IF attr \in DOMAIN ModuleNamespace[module]
    THEN PyObj(ModuleNamespace[module][attr])
    ELSE PyNone

\* ------------------------------------------------------------ hints
\* What repr() and the __origin__ attribute give for the objects modelled
Faces ==
    [ Union_int_str |->
        [repr |-> <<"typing", ".", "Union", "[", "int", ", ", "str", "]">>,
         origin |-> {PyObj("typing.Union")}],
      Union_str_list |->
        [repr |-> <<"typing", ".", "Union", "[", "str", ", ", "list", "]">>,
         origin |-> {PyObj("typing.Union")}],
      Union_int_Any |->
        [repr |-> <<"typing", ".", "Union", "[", "int", ", ", "typing", ".", "Any", "]">>,
         origin |-> {PyObj("typing.Union")}],
      List_int |->
        [repr |-> <<"typing", ".", "List", "[", "int", "]">>,
         origin |-> {PyObj("list")}],
      Any |->
        [repr |-> <<"typing", ".", "Any">>,
         origin |-> {}],
      ContextManager_str |->
        [repr |-> <<"typing", ".", "AbstractContextManager", "[", "str", "]">>,
         origin |-> {PyObj("contextlib.AbstractContextManager")}],
      Annotated_int |->
        [repr |-> <<"typing_extensions", ".", "Annotated", "[", "int", ", ", "0", "]">>,
         origin |-> {PyObj("int")}],
      typing_Missing |->
        [repr |-> <<"typing", ".", "Missing", "[", "int", "]">>,
         origin |-> {}],
      extensions_Missing |->
        [repr |-> <<"typing_extensions", ".", "Missing">>,
         origin |-> {}],
      list_int |->
        [repr |-> <<"list", "[", "int", "]">>,
         origin |-> {PyObj("list")}],
      int |->
        [repr |-> <<"<class 'int'>">>,
         origin |-> {}],
      class_TypeVar |->
        [repr |-> <<"<class 'typing", ".", "TypeVar'>">>,
         origin |-> {}],
      T |->
        [repr |-> <<"~T">>,
         origin |-> {}],
      Genericity_int |->
        [repr |-> <<"__main__", ".", "Genericity", "[", "int", "]">>,
         origin |-> {PyObj("Genericity")}],
      class_Genericity |->
        [repr |-> <<"<class '__main__", ".", "Genericity'>">>,
         origin |-> {}],
      ForwardRef_str |->
        [repr |-> <<"ForwardRef('str')">>,
         origin |-> {}],
      NewType_fn |->
        [repr |-> <<"<function NewType", ".", "<locals>", ".", "new_type at 0x7f>">>,
         origin |-> {}] ]

FaceNames == DOMAIN Faces

\* The identity of the object behind a face
FaceId ==
    [f \in FaceNames |->
        CASE f = "class_TypeVar" -> "typing.TypeVar"
          [] f = "int" -> "int"
          [] f = "list_int" -> "list[int]"
          [] f = "class_Genericity" -> "Genericity"
          [] OTHER -> f]

\* An object that is no hint of any category and defines no attribute
PlainObject ==
    [id |-> "object", repr |-> <<"<object>">>, origin |-> {},
     args |-> {}, params |-> {},
     pep |-> FALSE, none |-> FALSE, generic |-> FALSE, pep585 |-> FALSE,
     isclass |-> FALSE, forwardref |-> FALSE, newtype |-> FALSE,
     typevar |-> FALSE, alias |-> FALSE, name |-> "", type_var |-> "",
     g585 |-> FALSE, bases |-> <<>>, extra |-> {}, impl_type |-> ""]

WithFace(h, f) ==
    [h EXCEPT !.id = FaceId[f], !.repr = Faces[f].repr, !.origin = Faces[f].origin]

\* The None singleton
NoneHint ==
    [PlainObject EXCEPT !.id = "None", !.repr = <<"None">>, !.pep = TRUE, !.none = TRUE]

\* The values an __args__ or __parameters__ attribute takes
ArgsValues == {{}, {PyNone}, {PyTuple(<<>>)}, {PyTuple(<<"int", "str">>)}}

ParamsValues == {{}, {PyNone}, {PyTuple(<<>>)}, {PyTuple(<<"T">>)}}

\* Hints accepted by die_unless_hint_pep(), one for every combination of
\* the verdicts of the testers get_hint_pep_sign() calls
ClassifiedHints(v) ==
    { h \in
        { [WithFace(PlainObject, f) EXCEPT
              !.pep = TRUE, !.generic = g, !.pep585 = b, !.isclass = c,
              !.forwardref = r, !.newtype = n, !.typevar = t,
              !.args = a, !.params = p]
          : f \in FaceNames, g \in BOOLEAN, b \in BOOLEAN, c \in BOOLEAN,
            r \in BOOLEAN, n \in BOOLEAN, t \in BOOLEAN,
            a \in {{}, {PyTuple(<<"int", "str">>)}},
            p \in {{}, {PyTuple(<<"T">>)}} }
      : h.pep585 => (IS_PYTHON_AT_LEAST_3_9(v) /\ h.origin # {}) }

\* Objects rejected by die_unless_hint_pep(): neither None, nor a generic,
\* nor a PEP 585 hint, nor a type variable, nor a new type
RejectedObjects ==
    { [WithFace(PlainObject, f) EXCEPT
          !.isclass = c, !.forwardref = r, !.args = a, !.params = p]
      : f \in {"int", "list_int", "T", "Genericity_int"},
        c \in BOOLEAN, r \in BOOLEAN,
        a \in {{}, {PyTuple(<<"int", "str">>)}},
        p \in {{}, {PyTuple(<<"T">>)}} }

\* Python 3.6 type aliases: the subscriptions of typing.Pattern and
\* typing.Match, instances of typing._TypeAlias
TypeAliases ==
    { [PlainObject EXCEPT
          !.id = n, !.repr = <<n, "[", tv, "]">>, !.pep = TRUE,
          !.alias = TRUE, !.name = n, !.type_var = tv,
          !.impl_type = IF n = "Pattern" THEN "re.Pattern" ELSE "re.Match"]
      : n \in {"Pattern", "Match"}, tv \in {"AnyStr", "str", "bytes"} }

\* Hints varying in what the structural getters read
StructuredHints(v) ==
    { [WithFace(PlainObject, f) EXCEPT
          !.pep = TRUE, !.isclass = c, !.args = a, !.params = p]
      : f \in {"Union_int_str", "Any", "int"}, c \in BOOLEAN,
        a \in ArgsValues, p \in ParamsValues }

\* The values a tuple of pseudo-superclasses takes
BasesValues ==
    { <<>>, <<"Generic[T]">>, <<"Iterable[T]", "Container[T]">>,
      <<"Mapping[S, T]", "Iterable[T]">>, <<"list[int]">> }

\* Generics varying in their pseudo-superclasses and __parameters__: PEP 484
\* generics, and under Python >= 3.9 PEP 585 generics
GenericHints(v) ==
    { h \in
        { [WithFace(PlainObject, f) EXCEPT
              !.pep = TRUE, !.generic = TRUE, !.g585 = g, !.isclass = c,
              !.params = p, !.bases = b]
          : f \in {"class_Genericity", "Genericity_int"}, g \in BOOLEAN,
            c \in BOOLEAN, p \in ParamsValues, b \in BasesValues }
      : h.g585 => IS_PYTHON_AT_LEAST_3_9(v) }

\* The values an __origin__ attribute takes, and those of the __extra__
\* attribute that only Python 3.6 defines
OriginValues == {{}, {PyNone}, {PyObj("list")}, {PyObj("typing.List")}}

ExtraValues(v) ==
    IF IS_PYTHON_3_6(v) THEN {{}, {PyNone}, {PyObj("list")}} ELSE {{}}

\* Hints varying in what the origin getter reads
OriginHints(v) ==
    { [WithFace(PlainObject, f) EXCEPT !.pep = TRUE, !.origin = o, !.extra = e]
      : f \in {"List_int", "Union_int_str", "Any", "ContextManager_str"},
        o \in OriginValues, e \in ExtraValues(v) }

\* Every object the model passes to the getters under interpreter v
AllHints(v) ==
    {NoneHint} \cup ClassifiedHints(v) \cup RejectedObjects
    \cup StructuredHints(v) \cup GenericHints(v) \cup OriginHints(v)
    \cup (IF IS_PYTHON_3_6(v) THEN TypeAliases ELSE {})

\* ------------------------------------------------------------ testers
\* die_unless_hint_pep(hint) returns rather than raises
is_hint_pep(h) == h.pep

is_hint_pep_generic(h) == h.generic

is_hint_pep585_builtin(h) == h.pep585

is_hint_pep585_generic(h) == h.g585

is_hint_forwardref(h) == h.forwardref

is_hint_pep484_newtype(h) == h.newtype

is_hint_pep_typevar(h) == h.typevar

\* is_hint_pep_typevar() of the type_var of a Python 3.6 type alias, which
\* is typing.AnyStr, str or bytes
is_type_var_typevar(tv) == tv = "AnyStr"

\* The type variables of each pseudo-superclass, in order
BaseTypeVars ==
    [ b \in {"Generic[T]", "Iterable[T]", "Container[T]", "Mapping[S, T]", "list[int]"} |->
        CASE b = "Mapping[S, T]" -> <<"S", "T">>
          [] b = "list[int]" -> <<>>
          [] OTHER -> <<"T">> ]

\* s without the elements that already occur earlier in it
RECURSIVE Dedup(_)
Dedup(s) ==
    IF s = <<>> THEN <<>>
    ELSE LET front == Dedup(SubSeq(s, 1, Len(s) - 1))
             x == s[Len(s)]
         IN  IF \E i \in 1..Len(front) : front[i] = x THEN front
             ELSE Append(front, x)

RECURSIVE Flatten(_)
Flatten(ss) == IF ss = <<>> THEN <<>> ELSE Head(ss) \o Flatten(Tail(ss))

\* get_hint_pep585_generic_typevars(hint)
get_hint_pep585_generic_typevars(h) ==
    PyTuple(Dedup(Flatten([i \in 1..Len(h.bases) |-> BaseTypeVars[h.bases[i]]])))

\* ------------------------------------------------------------ getters
\* get_hint_pep_args() defaulting to None rather than the empty tuple
get_hint_pep_args_default_none(h, v) ==
    IF IS_PYTHON_AT_LEAST_3_7(v)
    THEN GetAttr(h.args, PyNone)
    ELSE IF h.alias
         THEN IF is_type_var_typevar(h.type_var)
              THEN PyTuple(<<>>)
              ELSE PyTuple(<<h.type_var>>)
         ELSE PyOr(GetAttr(h.args, PyNone), PyNone)

get_hint_pep_args(h, v) ==
    IF IS_PYTHON_AT_LEAST_3_7(v)
    THEN GetAttr(h.args, PyTuple(<<>>))
    ELSE IF h.alias
         THEN IF is_type_var_typevar(h.type_var)
              THEN PyTuple(<<>>)
              ELSE PyTuple(<<h.type_var>>)
         ELSE PyOr(GetAttr(h.args, PyTuple(<<>>)), PyTuple(<<>>))

\* get_hint_pep_typevars() scanning the pseudo-superclasses of a PEP 585
\* generic whether or not it defines __parameters__
get_hint_pep_typevars_scan_first(h, v) ==
    IF IS_PYTHON_AT_LEAST_3_9(v)
    THEN IF is_hint_pep585_generic(h)
         THEN get_hint_pep585_generic_typevars(h)
         ELSE LET hint_pep_typevars == GetAttr(h.params, PyNone)
              IN  IF hint_pep_typevars = PyNone THEN PyTuple(<<>>)
                  ELSE hint_pep_typevars
    ELSE IF IS_PYTHON_AT_LEAST_3_7(v)
    THEN GetAttr(h.params, PyTuple(<<>>))
    ELSE IF h.alias
         THEN IF is_type_var_typevar(h.type_var)
              THEN PyTuple(<<h.type_var>>)
              ELSE PyTuple(<<>>)
         ELSE PyOr(GetAttr(h.params, PyTuple(<<>>)), PyTuple(<<>>))

get_hint_pep_typevars(h, v) ==
    IF IS_PYTHON_AT_LEAST_3_9(v)
    THEN LET hint_pep_typevars == GetAttr(h.params, PyNone)
         IN  IF hint_pep_typevars = PyNone
             THEN IF is_hint_pep585_generic(h)
                  THEN get_hint_pep585_generic_typevars(h)
                  ELSE PyTuple(<<>>)
             ELSE hint_pep_typevars
    ELSE IF IS_PYTHON_AT_LEAST_3_7(v)
    THEN GetAttr(h.params, PyTuple(<<>>))
    ELSE IF h.alias
         THEN IF is_type_var_typevar(h.type_var)
              THEN PyTuple(<<h.type_var>>)
              ELSE PyTuple(<<>>)
         ELSE PyOr(GetAttr(h.params, PyTuple(<<>>)), PyTuple(<<>>))

\* ------------------------------------------------------------ sign
\* The message of a raised exception: the hint representation and the
\* attribute path it embeds
Msg(r, p) == [repr |-> r, path |-> p]

\* The tests of get_hint_pep_sign() in the order they are evaluated
SignTests ==
    << "die_unless_hint_pep", "is None", "is_hint_pep_generic",
       "is_hint_pep585_builtin", "isinstance type", "is_hint_forwardref",
       "is_hint_pep484_newtype", "is_hint_pep_typevar" >>

Trace(n) == SubSeq(SignTests, 1, n)

Sign(out, log) == [out |-> out, log |-> log]

\* Index of the last occurrence of token t in s, 0 when there is none
LastIndex(s, t) ==
    IF \E i \in 1..Len(s) : s[i] = t
    THEN CHOOSE i \in 1..Len(s) : s[i] = t /\ \A j \in (i + 1)..Len(s) : s[j] # t
    ELSE 0

\* ReprSignName splitting the representation at its last "."
ReprSignName_rpartition(h) ==
    LET i == LastIndex(h.repr, ".")
        hint_module_attr_name ==
            IF i = 0 THEN <<>> ELSE SubSeq(h.repr, i + 1, Len(h.repr))
        sign_name == Partition(hint_module_attr_name, "[")[1]
    IN  DictGet(HINT_PEP_TYPING_NAME_BAD_TO_GOOD, sign_name, sign_name)

\* ReprSignName without the table of bad typing names
ReprSignName_uncorrected(h) ==
    LET hint_module_attr_name == Partition(h.repr, ".")[3]
    IN  Partition(hint_module_attr_name, "[")[1]

\* hint_name.partition('.') and the unsubscripted, corrected attribute name
ReprModuleName(h) == Partition(h.repr, ".")[1]

ReprSignName(h) ==
    LET hint_module_attr_name == Partition(h.repr, ".")[3]
        sign_name == Partition(hint_module_attr_name, "[")[1]
    IN  DictGet(HINT_PEP_TYPING_NAME_BAD_TO_GOOD, sign_name, sign_name)

\* SignOfRepr reading the attribute with no default
SignOfRepr_no_default(h) ==
    LET hint_module_name == ReprModuleName(h)
        sign_name == ReprSignName(h)
    IN  IF hint_module_name \notin HINT_PEP_MODULE_NAMES
        THEN Raise("BeartypeDecorHintPepSignException", Msg(h.repr, <<>>))
        ELSE IF sign_name \in DOMAIN ModuleNamespace[hint_module_name]
             THEN Return(ModuleGetAttr(hint_module_name, sign_name))
             ELSE Raise("AttributeError", Msg(<<>>, hint_module_name \o <<".">> \o sign_name))

\* The tail of get_hint_pep_sign(): the sign named by repr(hint)
SignOfRepr(h) ==
    LET hint_module_name == ReprModuleName(h)
        sign_name == ReprSignName(h)
    IN  IF hint_module_name \notin HINT_PEP_MODULE_NAMES
        THEN Raise("BeartypeDecorHintPepSignException", Msg(h.repr, <<>>))
        ELSE LET sign == ModuleGetAttr(hint_module_name, sign_name)
             IN  IF sign = PyNone
                 THEN Raise("BeartypeDecorHintPepSignException",
                            Msg(h.repr, <<"typing", ".">> \o sign_name))
                 ELSE Return(sign)

\* The tests of get_hint_pep_sign() that follow the test for a standard
\* class: forward reference, new type, type variable, Python 3.6 type
\* alias, and the sign named by repr(hint)
SignOfTypingObject(h, v) ==
    IF is_hint_forwardref(h)
    THEN Sign(Return(HINT_PEP484_TYPE_FORWARDREF), Trace(6))
    ELSE IF is_hint_pep484_newtype(h)
    THEN Sign(Return(NewType), Trace(7))
    ELSE IF is_hint_pep_typevar(h)
    THEN Sign(Return(TypeVar), Trace(8))
    ELSE IF IS_PYTHON_3_6(v) /\ h.alias
    THEN Sign(IF <<h.name>> \in DOMAIN ModuleNamespace[<<"typing">>]
              THEN Return(ModuleGetAttr(<<"typing">>, <<h.name>>))
              ELSE Raise("AttributeError", Msg(<<>>, <<"typing", ".", h.name>>)),
              Trace(8) \o <<"isinstance _TypeAlias">>)
    ELSE Sign(SignOfRepr(h),
              Trace(8) \o (IF IS_PYTHON_3_6(v) THEN <<"isinstance _TypeAlias">> ELSE <<>>)
                       \o <<"repr">>)

\* SignOfClass without the test of HINT_PEP_SIGNS_TYPE
SignOfClass_unchecked(h) == Return(PyObj(h.id))

\* The branch of a standard class: the class if it is allowed as a sign
SignOfClass(h) ==
    IF h.id \notin HINT_PEP_SIGNS_TYPE
    THEN Raise("BeartypeDecorHintPepSignException", Msg(h.repr, <<>>))
    ELSE Return(PyObj(h.id))

\* hint.__origin__ read as the hint
OriginAttr_hint_itself(h) == Return(PyObj(h.id))

\* hint.__origin__
OriginAttr(h) ==
    IF h.origin = {}
    THEN Raise("AttributeError", Msg(<<>>, <<"__origin__">>))
    ELSE Return(GetAttr(h.origin, PyNone))

\* isinstance(hint, type) and
\* not (get_hint_pep_args(hint) or get_hint_pep_typevars(hint))
IsStandardClass(h, v) ==
    /\ h.isclass
    /\ ~Truthy(PyOr(get_hint_pep_args(h, v), get_hint_pep_typevars(h, v)))

\* SignOfPep with the PEP 585 test ahead of the generic test
SignOfPep_pep585_first(h, v) ==
    IF h.none
    THEN Sign(Return(NoneType), Trace(2))
    ELSE IF is_hint_pep585_builtin(h)
    THEN Sign(OriginAttr(h), Trace(4))
    ELSE IF is_hint_pep_generic(h)
    THEN Sign(Return(Generic), Trace(3))
    ELSE IF IsStandardClass(h, v)
    THEN Sign(SignOfClass(h), Trace(5))
    ELSE SignOfTypingObject(h, v)

\* SignOfPep giving a generic whose first pseudo-superclass is a
\* subscription of typing.Iterable the sign typing.Iterable, as the Examples
\* of the docstring have it
SignOfPep_first_base(h, v) ==
    IF h.none
    THEN Sign(Return(NoneType), Trace(2))
    ELSE IF is_hint_pep_generic(h)
    THEN Sign(Return(IF h.bases # <<>> /\ h.bases[1] = "Iterable[T]"
                     THEN PyObj("typing.Iterable") ELSE Generic), Trace(3))
    ELSE IF is_hint_pep585_builtin(h)
    THEN Sign(OriginAttr(h), Trace(4))
    ELSE IF IsStandardClass(h, v)
    THEN Sign(SignOfClass(h), Trace(5))
    ELSE SignOfTypingObject(h, v)

\* SignOfPep calling get_hint_pep_stdlib_type() for the origin of a PEP 585
\* hint
SignOfPep_calling_stdlib_type(h, v) ==
    IF h.none
    THEN Sign(Return(NoneType), Trace(2))
    ELSE IF is_hint_pep_generic(h)
    THEN Sign(Return(Generic), Trace(3))
    ELSE IF is_hint_pep585_builtin(h)
    THEN Sign(OriginAttr(h), Trace(4) \o <<"get_hint_pep_stdlib_type">>)
    ELSE IF IsStandardClass(h, v)
    THEN Sign(SignOfClass(h), Trace(5))
    ELSE SignOfTypingObject(h, v)

\* SignOfPep with the generic test only matching classes
SignOfPep_generic_class_only(h, v) ==
    IF h.none
    THEN Sign(Return(NoneType), Trace(2))
    ELSE IF is_hint_pep_generic(h) /\ h.isclass
    THEN Sign(Return(Generic), Trace(3))
    ELSE IF is_hint_pep585_builtin(h)
    THEN Sign(OriginAttr(h), Trace(4))
    ELSE IF IsStandardClass(h, v)
    THEN Sign(SignOfClass(h), Trace(5))
    ELSE SignOfTypingObject(h, v)

\* get_hint_pep_sign() after die_unless_hint_pep() has returned
SignOfPep(h, v) ==
    IF h.none
    THEN Sign(Return(NoneType), Trace(2))
    ELSE IF is_hint_pep_generic(h)
    THEN Sign(Return(Generic), Trace(3))
    ELSE IF is_hint_pep585_builtin(h)
    THEN Sign(OriginAttr(h), Trace(4))
    ELSE IF IsStandardClass(h, v)
    THEN Sign(SignOfClass(h), Trace(5))
    ELSE SignOfTypingObject(h, v)

\* get_hint_pep_sign() testing for None before validating the hint
get_hint_pep_sign_none_first(h, v) ==
    IF h.none
    THEN Sign(Return(NoneType), <<"is None">>)
    ELSE IF ~is_hint_pep(h)
    THEN Sign(Raise("BeartypeDecorHintPepException", NoMsg),
              <<"is None", "die_unless_hint_pep">>)
    ELSE SignOfPep(h, v)

\* The body of get_hint_pep_sign(): the outcome and the tests evaluated
get_hint_pep_sign(h, v) ==
    IF ~is_hint_pep(h)
    THEN Sign(Raise("BeartypeDecorHintPepException", NoMsg), Trace(1))
    ELSE SignOfPep(h, v)

\* get_hint_pep_sign() without its @callable_cached decorator
get_hint_pep_sign_undecorated(c, h, v) ==
    LET r == get_hint_pep_sign(h, v)
    IN  [out |-> r.out, log |-> r.log, hit |-> FALSE, cache |-> c]

\* get_hint_pep_sign() memoized by a cache that holds the sign of the last
\* hint only
get_hint_pep_sign_evicting(c, h, v) ==
    IF h \in DOMAIN c
    THEN [out |-> Return(c[h]), log |-> <<>>, hit |-> TRUE, cache |-> c]
    ELSE LET r == get_hint_pep_sign(h, v)
         IN  [out |-> r.out, log |-> r.log, hit |-> FALSE,
              cache |-> IF r.out.ok THEN (h :> r.out.val) ELSE c]

\* @callable_cached get_hint_pep_sign: the call as the caller sees it, with
\* cache c: the outcome, the tests evaluated, whether the cache answered, and
\* the cache afterwards
get_hint_pep_sign_cached(c, h, v) ==
    IF h \in DOMAIN c
    THEN [out |-> Return(c[h]), log |-> <<>>, hit |-> TRUE, cache |-> c]
    ELSE LET r == get_hint_pep_sign(h, v)
         IN  [out |-> r.out, log |-> r.log, hit |-> FALSE,
              cache |-> IF r.out.ok THEN c @@ (h :> r.out.val) ELSE c]

\* ------------------------------------------------------------ origins
\* The placeholder that is not None
SENTINEL == PyObj("SENTINEL")

\* The signs of the hints that originate from a standard class
HINT_PEP_SIGNS_TYPE_ORIGIN_STDLIB ==
    { PyObj("typing.List"), PyObj("typing.ContextManager"),
      PyObj("typing.AsyncContextManager"), PyObj("typing.Iterable"),
      PyObj("typing.Pattern"), PyObj("typing.Match"), PyObj("list") }

\* The objects of the model that are classes outside the typing module
StandardClasses ==
    { "list", "int", "str", "Genericity", "NoneType",
      "contextlib.AbstractContextManager", "re.Pattern", "re.Match" }

\* The typing objects of the model that are classes under Python 3.6 only,
\* where the subscriptable typing objects are instances of GenericMeta
TypingClasses36 == {"typing.List"}

\* isinstance(value, type)
IsInstanceOfType(val, v) ==
    /\ val.tag = "object"
    /\ \/ val.name \in StandardClasses
       \/ IS_PYTHON_3_6(v) /\ val.name \in TypingClasses36

\* _get_hint_pep_origin_object_or_none(hint)
get_hint_pep_origin_object_or_none(h, v) ==
    IF IS_PYTHON_AT_LEAST_3_7(v)
    THEN GetAttr(h.origin, PyNone)
    ELSE IF h.alias
    THEN PyObj(h.impl_type)
    ELSE LET hint_extra == GetAttr(h.extra, SENTINEL)
         IN  IF hint_extra # PyNone
             THEN hint_extra
             ELSE GetAttr(h.origin, PyNone)

\* The attributes _get_hint_pep_origin_object_or_none(hint) reads, in order
OriginReads(h, v) ==
    IF IS_PYTHON_AT_LEAST_3_7(v)
    THEN <<"__origin__">>
    ELSE IF h.alias
    THEN <<"impl_type">>
    ELSE IF GetAttr(h.extra, SENTINEL) # PyNone
    THEN <<"__extra__">>
    ELSE <<"__extra__", "__origin__">>

\* get_hint_pep_generic_type_or_none() testing the hint before its origin
GenericTypeOf_hint_first(hint_origin, h, v) ==
    IF h.isclass
    THEN PyHint(h)
    ELSE IF IsInstanceOfType(hint_origin, v)
    THEN hint_origin
    ELSE PyNone

\* What get_hint_pep_generic_type_or_none() does with hint_origin, the
\* object _get_hint_pep_origin_object_or_none() returned: returns it if it
\* is a class, else the hint if the hint is a class, else None
GenericTypeOf(hint_origin, h, v) ==
    IF IsInstanceOfType(hint_origin, v)
    THEN hint_origin
    ELSE IF h.isclass
    THEN PyHint(h)
    ELSE PyNone

\* The body of get_hint_pep_generic_type_or_none()
get_hint_pep_generic_type_or_none(h, v) ==
    GenericTypeOf(get_hint_pep_origin_object_or_none(h, v), h, v)

\* @callable_cached get_hint_pep_generic_type_or_none, called with cache c
\* of its own: the outcome, the calls made, whether the cache answered, and
\* the cache afterwards
get_hint_pep_generic_type_or_none_cached(c, h, v) ==
    IF h \in DOMAIN c
    THEN [out |-> Return(c[h]), log |-> <<>>, hit |-> TRUE, cache |-> c]
    ELSE [out |-> Return(get_hint_pep_generic_type_or_none(h, v)),
          log |-> <<"_get_hint_pep_origin_object_or_none">>,
          hit |-> FALSE,
          cache |-> c @@ (h :> get_hint_pep_generic_type_or_none(h, v))]

\* The outcome of a getter that calls get_hint_pep_sign(): with the calls
\* it made and the sign cache afterwards
Got(out, log, c) == [out |-> out, log |-> log, cache |-> c]

\* get_hint_pep_stdlib_type_or_none() returning the origin of every hint
get_hint_pep_stdlib_type_or_none_any_sign(c, h, v) ==
    LET hint_sign == get_hint_pep_sign_cached(c, h, v)
    IN  IF ~hint_sign.out.ok
        THEN Got(hint_sign.out, <<"get_hint_pep_sign">>, hint_sign.cache)
        ELSE Got(Return(get_hint_pep_origin_object_or_none(h, v)),
                 <<"get_hint_pep_sign", "_get_hint_pep_origin_object_or_none">>,
                 hint_sign.cache)

\* get_hint_pep_stdlib_type_or_none() returning None when
\* get_hint_pep_sign() raises
OriginIfStdlibSign_suppressing(hint_sign, h, v) ==
    IF ~hint_sign.out.ok
    THEN Got(Return(PyNone), <<"get_hint_pep_sign">>, hint_sign.cache)
    ELSE IF hint_sign.out.val \in HINT_PEP_SIGNS_TYPE_ORIGIN_STDLIB
    THEN Got(Return(get_hint_pep_origin_object_or_none(h, v)),
             <<"get_hint_pep_sign", "_get_hint_pep_origin_object_or_none">>,
             hint_sign.cache)
    ELSE Got(Return(PyNone), <<"get_hint_pep_sign">>, hint_sign.cache)

\* What get_hint_pep_stdlib_type_or_none() does with hint_sign, the
\* outcome of its call of get_hint_pep_sign(): an exception propagates, a
\* sign in HINT_PEP_SIGNS_TYPE_ORIGIN_STDLIB gives the origin, any other
\* sign gives None
OriginIfStdlibSign(hint_sign, h, v) ==
    IF ~hint_sign.out.ok
    THEN Got(hint_sign.out, <<"get_hint_pep_sign">>, hint_sign.cache)
    ELSE IF hint_sign.out.val \in HINT_PEP_SIGNS_TYPE_ORIGIN_STDLIB
    THEN Got(Return(get_hint_pep_origin_object_or_none(h, v)),
             <<"get_hint_pep_sign", "_get_hint_pep_origin_object_or_none">>,
             hint_sign.cache)
    ELSE Got(Return(PyNone), <<"get_hint_pep_sign">>, hint_sign.cache)

\* get_hint_pep_stdlib_type_or_none(hint), called with sign cache c
get_hint_pep_stdlib_type_or_none(c, h, v) ==
    OriginIfStdlibSign(get_hint_pep_sign_cached(c, h, v), h, v)

\* get_hint_pep_stdlib_type() returning whatever
\* get_hint_pep_stdlib_type_or_none() returns
get_hint_pep_stdlib_type_unchecked(c, h, v) ==
    LET hint_type_origin == get_hint_pep_stdlib_type_or_none(c, h, v)
    IN  Got(hint_type_origin.out,
            <<"get_hint_pep_stdlib_type_or_none">>, hint_type_origin.cache)

\* What get_hint_pep_stdlib_type() does with hint_type_origin, the outcome
\* of its call of get_hint_pep_stdlib_type_or_none(): an exception
\* propagates, None raises, any other value is returned
TypeOrRaise(hint_type_origin, h) ==
    IF ~hint_type_origin.out.ok
    THEN Got(hint_type_origin.out,
             <<"get_hint_pep_stdlib_type_or_none">>, hint_type_origin.cache)
    ELSE IF hint_type_origin.out.val = PyNone
    THEN Got(Raise("BeartypeDecorHintPepException", Msg(h.repr, <<>>)),
             <<"get_hint_pep_stdlib_type_or_none">>, hint_type_origin.cache)
    ELSE Got(Return(hint_type_origin.out.val),
             <<"get_hint_pep_stdlib_type_or_none">>, hint_type_origin.cache)

\* get_hint_pep_stdlib_type(hint), called with sign cache c
get_hint_pep_stdlib_type(c, h, v) ==
    TypeOrRaise(get_hint_pep_stdlib_type_or_none(c, h, v), h)

\* ------------------------------------------------------------ generics
\* get_hint_pep585_generic_bases_unerased(hint), called on PEP 585 generics
get_hint_pep585_generic_bases_unerased(h) == Return(PyTuple(h.bases))

\* get_hint_pep484_generic_bases_unerased(hint), which raises unless the
\* hint is a generic
get_hint_pep484_generic_bases_unerased(h) ==
    IF is_hint_pep_generic(h)
    THEN Return(PyTuple(h.bases))
    ELSE Raise("BeartypeDecorHintPepException", NoMsg)

\* get_hint_pep_generic_bases_unerased() returning whatever it extracted
get_hint_pep_generic_bases_unerased_unchecked(h) ==
    IF is_hint_pep585_generic(h)
    THEN Sign(get_hint_pep585_generic_bases_unerased(h),
              <<"is_hint_pep585_generic", "get_hint_pep585_generic_bases_unerased">>)
    ELSE Sign(get_hint_pep484_generic_bases_unerased(h),
              <<"is_hint_pep585_generic", "get_hint_pep484_generic_bases_unerased">>)

\* get_hint_pep_generic_bases_unerased() raising the exception of
\* get_hint_pep_sign() for a generic without pseudo-superclasses
get_hint_pep_generic_bases_unerased_sign_exception(h) ==
    LET r == get_hint_pep_generic_bases_unerased_unchecked(h)
    IN  IF r.out.ok /\ ~Truthy(r.out.val)
        THEN Sign(Raise("BeartypeDecorHintPepSignException", Msg(h.repr, <<>>)), r.log)
        ELSE r

\* get_hint_pep_generic_bases_unerased(hint): the outcome and the calls made
get_hint_pep_generic_bases_unerased(h) ==
    LET hint_pep_generic_bases_unerased ==
            IF is_hint_pep585_generic(h)
            THEN Sign(get_hint_pep585_generic_bases_unerased(h),
                      <<"is_hint_pep585_generic", "get_hint_pep585_generic_bases_unerased">>)
            ELSE Sign(get_hint_pep484_generic_bases_unerased(h),
                      <<"is_hint_pep585_generic", "get_hint_pep484_generic_bases_unerased">>)
    IN  IF ~hint_pep_generic_bases_unerased.out.ok
        THEN hint_pep_generic_bases_unerased
        ELSE IF ~Truthy(hint_pep_generic_bases_unerased.out.val)
        THEN Sign(Raise("BeartypeDecorHintPepException", Msg(h.repr, <<>>)),
                  hint_pep_generic_bases_unerased.log)
        ELSE hint_pep_generic_bases_unerased

\* ------------------------------------------------------------ PEP 484
\* The representations, up to the first "[", of the PEP 484 hints that
\* PEP 585 deprecates
DeprecatedReprs ==
    { <<"typing", ".", "List">>, <<"typing", ".", "Dict">>,
      <<"typing", ".", "ContextManager">>, <<"typing", ".", "Iterable">> }

\* HINTS_PEP484_REPR_PREFIX_DEPRECATED: empty unless the interpreter
\* supports PEP 585
HINTS_PEP484_REPR_PREFIX_DEPRECATED(v) ==
    IF IS_PYTHON_AT_LEAST_3_9(v) THEN DeprecatedReprs ELSE {}

\* get_hint_repr(hint)
get_hint_repr(h) == h.repr

\* The warning issue_warning() issues
Warning(cls, prefix, r) == [cls |-> cls, prefix |-> prefix, repr |-> r]

\* The outcome of a reducer and the warnings it issued
Reduced(out, w) == [out |-> out, emitted |-> w]

\* The values of the exception_prefix argument: not passed, a string, or
\* an object that is no string
ExceptionPrefixes ==
    { {}, {PyStr("")}, {PyStr("@beartyped f() ")}, {PyObj("42")}, {PyNone} }

\* The positional and keyword arguments passed after the named ones
ExtraArgs == { <<>>, <<PyObj("conf")>>, <<PyObj("conf"), PyNone>> }

\* reduce_hint_pep484_deprecated() memoized: a call on the hint of the call
\* before it returns what that call returned and issues nothing
reduce_hint_pep484_deprecated_memoized(h, exception_prefix, args, v) ==
    IF exception_prefix = {}
    THEN Reduced(Raise("TypeError", NoMsg), <<>>)
    ELSE IF \E x \in exception_prefix : x.tag # "str"
    THEN Reduced(Raise("AssertionError", NoMsg), <<>>)
    ELSE IF /\ Partition(get_hint_repr(h), "[")[1] \in HINTS_PEP484_REPR_PREFIX_DEPRECATED(v)
            /\ ~(last.op = "reduce_hint_pep484_deprecated" /\ last.out.ok /\ hint = h)
         THEN Reduced(Return(PyHint(h)),
                      << Warning("BeartypeDecorHintPep585DeprecationWarning",
                                 exception_prefix, get_hint_repr(h)) >>)
         ELSE Reduced(Return(PyHint(h)), <<>>)

\* reduce_hint_pep484_deprecated() testing the whole representation
reduce_hint_pep484_deprecated_whole_repr(h, exception_prefix, args, v) ==
    IF exception_prefix = {}
    THEN Reduced(Raise("TypeError", NoMsg), <<>>)
    ELSE IF \E x \in exception_prefix : x.tag # "str"
    THEN Reduced(Raise("AssertionError", NoMsg), <<>>)
    ELSE IF get_hint_repr(h) \in HINTS_PEP484_REPR_PREFIX_DEPRECATED(v)
         THEN Reduced(Return(PyHint(h)),
                      << Warning("BeartypeDecorHintPep585DeprecationWarning",
                                 exception_prefix, get_hint_repr(h)) >>)
         ELSE Reduced(Return(PyHint(h)), <<>>)

\* reduce_hint_pep484_deprecated() reducing a deprecated hint to the origin
\* of the hint
reduce_hint_pep484_deprecated_to_origin(h, exception_prefix, args, v) ==
    IF exception_prefix = {}
    THEN Reduced(Raise("TypeError", NoMsg), <<>>)
    ELSE IF \E x \in exception_prefix : x.tag # "str"
    THEN Reduced(Raise("AssertionError", NoMsg), <<>>)
    ELSE IF Partition(get_hint_repr(h), "[")[1] \in HINTS_PEP484_REPR_PREFIX_DEPRECATED(v)
         THEN Reduced(Return(GetAttr(h.origin, PyNone)),
                      << Warning("BeartypeDecorHintPep585DeprecationWarning",
                                 exception_prefix, get_hint_repr(h)) >>)
         ELSE Reduced(Return(PyHint(h)), <<>>)

\* reduce_hint_pep484_deprecated() validating the hint
reduce_hint_pep484_deprecated_validating(h, exception_prefix, args, v) ==
    IF exception_prefix = {}
    THEN Reduced(Raise("TypeError", NoMsg), <<>>)
    ELSE IF \E x \in exception_prefix : x.tag # "str"
    THEN Reduced(Raise("AssertionError", NoMsg), <<>>)
    ELSE IF ~is_hint_pep(h)
    THEN Reduced(Raise("BeartypeDecorHintPepException", NoMsg), <<>>)
    ELSE IF Partition(get_hint_repr(h), "[")[1] \in HINTS_PEP484_REPR_PREFIX_DEPRECATED(v)
         THEN Reduced(Return(PyHint(h)),
                      << Warning("BeartypeDecorHintPep585DeprecationWarning",
                                 exception_prefix, get_hint_repr(h)) >>)
         ELSE Reduced(Return(PyHint(h)), <<>>)

\* reduce_hint_pep484_deprecated(hint, exception_prefix, *args, **kwargs):
\* exception_prefix is a required parameter and is asserted to be a string
\* (assert statements are executed: the interpreter runs without -O)
reduce_hint_pep484_deprecated(h, exception_prefix, args, v) ==
    IF exception_prefix = {}
    THEN Reduced(Raise("TypeError", NoMsg), <<>>)
    ELSE IF \E x \in exception_prefix : x.tag # "str"
    THEN Reduced(Raise("AssertionError", NoMsg), <<>>)
    ELSE LET hint_repr == get_hint_repr(h)
             hint_repr_bare == Partition(hint_repr, "[")[1]
         IN  IF hint_repr_bare \in HINTS_PEP484_REPR_PREFIX_DEPRECATED(v)
             THEN Reduced(Return(PyHint(h)),
                          << Warning("BeartypeDecorHintPep585DeprecationWarning",
                                     exception_prefix, hint_repr) >>)
             ELSE Reduced(Return(PyHint(h)), <<>>)

\* reduce_hint_pep484_none() without its assertion
reduce_hint_pep484_none_unasserted(h, args) == Return(NoneType)

\* reduce_hint_pep484_none(hint, *args, **kwargs)
reduce_hint_pep484_none(h, args) ==
    IF ~h.none
    THEN Raise("AssertionError", Msg(h.repr, <<>>))
    ELSE Return(NoneType)

\* is_hint_pep484_typevar_ignorable() testing for a type variable
is_hint_pep484_typevar_ignorable_tested(h) ==
    IF is_hint_pep_typevar(h) THEN PyTrue ELSE PyNone

\* is_hint_pep484_typevar_ignorable(hint)
is_hint_pep484_typevar_ignorable(h) == PyTrue

\* ------------------------------------------------------------ state machine
Idle == [op |-> "", out |-> Return(PyNone), log |-> <<>>, hit |-> FALSE]

Done(op, out, log, hit) == [op |-> op, out |-> out, log |-> log, hit |-> hit]

\* A call passing the hint only
NoArgs == [prefix |-> {}, extra |-> <<>>]

\* A caller calls get_hint_pep_sign(h)
CallSign(h) ==
    LET r == get_hint_pep_sign_cached(cache, h, pyver)
    IN  /\ hint' = h
        /\ cache' = r.cache
        /\ last' = Done("get_hint_pep_sign", r.out, r.log, r.hit)
        /\ passed' = NoArgs
        /\ emitted' = <<>>
        /\ UNCHANGED <<pyver, typecache, threads, requested>>

\* A caller calls get_hint_pep_args(h)
CallArgs(h) ==
    /\ hint' = h
    /\ last' = Done("get_hint_pep_args", Return(get_hint_pep_args(h, pyver)), <<>>, FALSE)
    /\ passed' = NoArgs
    /\ emitted' = <<>>
    /\ UNCHANGED <<pyver, cache, typecache, threads, requested>>

\* A caller calls get_hint_pep_typevars(h)
CallTypevars(h) ==
    /\ hint' = h
    /\ last' = Done("get_hint_pep_typevars", Return(get_hint_pep_typevars(h, pyver)), <<>>, FALSE)
    /\ passed' = NoArgs
    /\ emitted' = <<>>
    /\ UNCHANGED <<pyver, cache, typecache, threads, requested>>

\* A caller calls get_hint_pep_generic_bases_unerased(h)
CallBases(h) ==
    LET r == get_hint_pep_generic_bases_unerased(h)
    IN  /\ hint' = h
        /\ last' = Done("get_hint_pep_generic_bases_unerased", r.out, r.log, FALSE)
        /\ passed' = NoArgs
        /\ emitted' = <<>>
        /\ UNCHANGED <<pyver, cache, typecache, threads, requested>>

\* A caller calls get_hint_pep_stdlib_type_or_none(h)
CallStdlibTypeOrNone(h) ==
    LET r == get_hint_pep_stdlib_type_or_none(cache, h, pyver)
    IN  /\ hint' = h
        /\ cache' = r.cache
        /\ last' = Done("get_hint_pep_stdlib_type_or_none", r.out, r.log, FALSE)
        /\ passed' = NoArgs
        /\ emitted' = <<>>
        /\ UNCHANGED <<pyver, typecache, threads, requested>>

\* A caller calls get_hint_pep_stdlib_type(h)
CallStdlibType(h) ==
    LET r == get_hint_pep_stdlib_type(cache, h, pyver)
    IN  /\ hint' = h
        /\ cache' = r.cache
        /\ last' = Done("get_hint_pep_stdlib_type", r.out, r.log, FALSE)
        /\ passed' = NoArgs
        /\ emitted' = <<>>
        /\ UNCHANGED <<pyver, typecache, threads, requested>>

\* A caller calls get_hint_pep_generic_type_or_none(h)
CallGenericType(h) ==
    LET r == get_hint_pep_generic_type_or_none_cached(typecache, h, pyver)
    IN  /\ hint' = h
        /\ typecache' = r.cache
        /\ last' = Done("get_hint_pep_generic_type_or_none", r.out, r.log, r.hit)
        /\ passed' = NoArgs
        /\ emitted' = <<>>
        /\ UNCHANGED <<pyver, cache, threads, requested>>

\* A caller calls reduce_hint_pep484_deprecated(h, ...) passing
\* exception_prefix (if any) and further arguments
CallReduceDeprecated(h, exception_prefix, args) ==
    LET r == reduce_hint_pep484_deprecated(h, exception_prefix, args, pyver)
    IN  /\ hint' = h
        /\ last' = Done("reduce_hint_pep484_deprecated", r.out, <<>>, FALSE)
        /\ passed' = [prefix |-> exception_prefix, extra |-> args]
        /\ emitted' = r.emitted
        /\ UNCHANGED <<pyver, cache, typecache, threads, requested>>

\* The most calls the observer of the warnings counts
MaxObserved == 4

\* A caller calls reduce_hint_pep484_deprecated(h, exception_prefix) while
\* an observer counts the calls, those of them on a hint whose
\* representation up to its first "[" is deprecated, and the warnings
\* requested of issue_warning()
ObservedReduceDeprecated(h, exception_prefix) ==
    LET r == reduce_hint_pep484_deprecated(h, exception_prefix, <<>>, pyver)
        deprecated ==
            Partition(get_hint_repr(h), "[")[1] \in HINTS_PEP484_REPR_PREFIX_DEPRECATED(pyver)
    IN  /\ requested.calls < MaxObserved
        /\ hint' = h
        /\ last' = Done("reduce_hint_pep484_deprecated", r.out, <<>>, FALSE)
        /\ passed' = [prefix |-> exception_prefix, extra |-> <<>>]
        /\ emitted' = r.emitted
        /\ requested' =
              [calls |-> requested.calls + 1,
               deprecated |-> requested.deprecated + (IF deprecated THEN 1 ELSE 0),
               signals |-> requested.signals + Len(r.emitted)]
        /\ UNCHANGED <<pyver, cache, typecache, threads>>

\* A caller calls reduce_hint_pep484_none(h, ...) passing further arguments
CallReduceNone(h, args) ==
    /\ hint' = h
    /\ last' = Done("reduce_hint_pep484_none", reduce_hint_pep484_none(h, args), <<>>, FALSE)
    /\ passed' = [prefix |-> {}, extra |-> args]
    /\ emitted' = <<>>
    /\ UNCHANGED <<pyver, cache, typecache, threads, requested>>

\* A caller calls is_hint_pep484_typevar_ignorable(h)
CallTypevarIgnorable(h) ==
    /\ hint' = h
    /\ last' = Done("is_hint_pep484_typevar_ignorable",
                    Return(is_hint_pep484_typevar_ignorable(h)), <<>>, FALSE)
    /\ passed' = NoArgs
    /\ emitted' = <<>>
    /\ UNCHANGED <<pyver, cache, typecache, threads, requested>>

\* ------------------------------------------------------------ threads
\* The threads of the model that call get_hint_pep_sign() at the same time
NumThreads == 2

Threads == 1..NumThreads

\* A thread that has called nothing yet
IdleThread == [pc |-> "idle", hint |-> NoneHint, out |-> Return(PyNone), miss |-> FALSE]

NoThreads == [t \in Threads |-> IdleThread]

\* Nothing counted yet: no call on a deprecated hint, no warning
NoneRequested == [calls |-> 0, deprecated |-> 0, signals |-> 0]

\* A get_hint_pep_sign() whose result depends on the thread running it
get_hint_pep_sign_of_thread_local(t, h, v) ==
    IF t = 1 THEN get_hint_pep_sign(h, v).out ELSE Return(Generic)

\* What the decorated function gives thread t for hint h when the cache has
\* no entry: the body of get_hint_pep_sign(), which reads nothing but the hint
ComputedSign(t, h, v) == get_hint_pep_sign(h, v).out

\* The cache after cache[hint] = sign
Stored(c, h, sign) == [x \in DOMAIN c \cup {h} |-> IF x = h THEN sign ELSE c[x]]

\* Thread t calls get_hint_pep_sign(h)
ThreadCall(t, h) ==
    /\ threads[t].pc \in {"idle", "done"}
    /\ threads' = [threads EXCEPT ![t] =
                      [pc |-> "lookup", hint |-> h, out |-> Return(PyNone), miss |-> FALSE]]
    /\ UNCHANGED <<pyver, hint, cache, last, passed, emitted, typecache, requested>>

\* The wrapper looks its argument up in the cache: returns the entry if
\* there is one, goes on to call the decorated function if not
ThreadLookup(t) ==
    /\ threads[t].pc = "lookup"
    /\ threads' = [threads EXCEPT ![t] =
                      IF threads[t].hint \in DOMAIN cache
                      THEN [@ EXCEPT !.pc = "done",
                                     !.out = Return(cache[threads[t].hint])]
                      ELSE [@ EXCEPT !.pc = "compute", !.miss = TRUE]]
    /\ UNCHANGED <<pyver, hint, cache, last, passed, emitted, typecache, requested>>

\* The decorated function runs: a raised exception ends the call
ThreadCompute(t) ==
    LET out == ComputedSign(t, threads[t].hint, pyver)
    IN  /\ threads[t].pc = "compute"
        /\ threads' = [threads EXCEPT ![t] =
                          [@ EXCEPT !.pc = IF out.ok THEN "store" ELSE "done",
                                    !.out = out]]
        /\ UNCHANGED <<pyver, hint, cache, last, passed, emitted, typecache, requested>>

\* The wrapper stores the sign under its argument, whatever entry another
\* thread has stored since the lookup, and returns it
ThreadStore(t) ==
    /\ threads[t].pc = "store"
    /\ cache' = Stored(cache, threads[t].hint, threads[t].out.val)
    /\ threads' = [threads EXCEPT ![t] = [@ EXCEPT !.pc = "done"]]
    /\ UNCHANGED <<pyver, hint, last, passed, emitted, typecache, requested>>

\* The most hints the sign cache of the model holds
MaxCache == 2

\* The __extra__ attribute of the object behind face f: only Python 3.6
\* defines it, on the subscriptable typing classes (the origin class) and
\* on user-defined generics (None)
FaceExtra(f, v) ==
    IF ~IS_PYTHON_3_6(v) THEN {}
    ELSE IF f \in {"List_int", "ContextManager_str"} THEN Faces[f].origin
    ELSE IF f \in {"Genericity_int", "class_Genericity"} THEN {PyNone}
    ELSE {}

\* The hints of a program: the categories of hints, one or two of each
Hints(v) ==
    LET typing(f, a) ==
            [WithFace(PlainObject, f) EXCEPT
                !.pep = TRUE, !.args = a, !.extra = FaceExtra(f, v)]
    IN  { NoneHint,
          typing("Union_int_str", {PyTuple(<<"int", "str">>)}),
          typing("Union_str_list", {PyTuple(<<"str", "list">>)}),
          typing("List_int", {PyTuple(<<"int">>)}),
          typing("Any", {}),
          typing("ContextManager_str", {PyTuple(<<"str">>)}),
          typing("Annotated_int", {PyTuple(<<"int">>)}),
          typing("typing_Missing", {PyTuple(<<"int">>)}),
          typing("extensions_Missing", {}),
          [typing("T", {}) EXCEPT !.typevar = TRUE],
          [typing("ForwardRef_str", {}) EXCEPT !.forwardref = TRUE],
          [typing("NewType_fn", {}) EXCEPT !.newtype = TRUE],
          [typing("class_TypeVar", {}) EXCEPT !.isclass = TRUE],
          [typing("class_Genericity", {}) EXCEPT
              !.isclass = TRUE, !.generic = TRUE, !.params = {PyTuple(<<"T">>)},
              !.bases = <<"Generic[T]">>],
          [typing("Genericity_int", {PyTuple(<<"int">>)}) EXCEPT
              !.generic = TRUE, !.params = {PyTuple(<<>>)},
              !.bases = <<"Generic[T]">>],
          [WithFace(PlainObject, "int") EXCEPT !.isclass = TRUE] }
        \cup (IF IS_PYTHON_AT_LEAST_3_9(v)
              THEN { [typing("list_int", {PyTuple(<<"int">>)}) EXCEPT !.pep585 = TRUE] }
              ELSE {})
        \cup (IF IS_PYTHON_3_6(v) THEN TypeAliases ELSE {})

Init ==
    /\ pyver \in PyVersions
    /\ hint = NoneHint
    /\ cache = <<>>
    /\ last = Idle
    /\ passed = NoArgs
    /\ emitted = <<>>
    /\ typecache = <<>>
    /\ threads = NoThreads
    /\ requested = NoneRequested

Next ==
    \/ \E h \in Hints(pyver) :
          /\ h \in DOMAIN cache \/ Cardinality(DOMAIN cache) < MaxCache
          /\ CallSign(h)
    \/ \E h \in Hints(pyver) : CallArgs(h)
    \/ \E h \in Hints(pyver) : CallTypevars(h)
    \/ \E h \in {g \in Hints(pyver) : is_hint_pep_generic(g)} : CallBases(h)
    \/ \E h \in Hints(pyver) :
          /\ h \in DOMAIN cache \/ Cardinality(DOMAIN cache) < MaxCache
          /\ CallStdlibTypeOrNone(h)
    \/ \E h \in Hints(pyver) :
          /\ h \in DOMAIN cache \/ Cardinality(DOMAIN cache) < MaxCache
          /\ CallStdlibType(h)
    \/ \E h \in {g \in Hints(pyver) : ReprModuleName(g) = <<"typing">>} :
          CallReduceDeprecated(h, {PyStr("")}, <<>>)
    \/ \E h \in {g \in Hints(pyver) : g.none} : CallReduceNone(h, <<>>)
    \/ \E h \in {g \in Hints(pyver) : is_hint_pep_typevar(g)} : CallTypevarIgnorable(h)

\* The getters called in any order on the hints of a program, and the
\* functions that callers dispatch on the kind of hint called on the hints
\* of their kind: the pseudo-superclass getter on generics, the deprecation
\* reducer on typing hints, the None reducer on None, the type variable
\* tester on type variables
Spec == Init /\ [][Next]_vars

InitInputs ==
    /\ pyver \in PyVersions
    /\ hint \in AllHints(pyver)
    /\ cache = <<>>
    /\ last = Idle
    /\ passed = NoArgs
    /\ emitted = <<>>
    /\ typecache = <<>>
    /\ threads = NoThreads
    /\ requested = NoneRequested

NextInputs ==
    \/ CallSign(hint)
    \/ CallArgs(hint)
    \/ CallTypevars(hint)
    \/ CallBases(hint)
    \/ CallStdlibTypeOrNone(hint)
    \/ CallStdlibType(hint)

\* Each getter applied to one object, for every object
SpecInputs == InitInputs /\ [][NextInputs]_vars

InitOrigins ==
    /\ pyver \in PyVersions
    /\ hint \in AllHints(pyver) \cup Hints(pyver)
    /\ cache = <<>>
    /\ last = Idle
    /\ passed = NoArgs
    /\ emitted = <<>>
    /\ typecache = <<>>
    /\ threads = NoThreads
    /\ requested = NoneRequested

NextOrigins ==
    \/ NextInputs
    \/ CallGenericType(hint)

\* Each getter, the getter of the class of a generic among them, applied to
\* one object, for every object and every hint of the catalog
SpecOrigins == InitOrigins /\ [][NextOrigins]_vars

\* The objects the model passes to the reducers and testers of PEP 484
ReducerHints(v) == Hints(v) \cup RejectedObjects

InitReducers ==
    /\ pyver \in PyVersions
    /\ hint \in ReducerHints(pyver)
    /\ cache = <<>>
    /\ last = Idle
    /\ passed = NoArgs
    /\ emitted = <<>>
    /\ typecache = <<>>
    /\ threads = NoThreads
    /\ requested = NoneRequested

NextReducers ==
    \/ \E p \in ExceptionPrefixes, a \in ExtraArgs : CallReduceDeprecated(hint, p, a)
    \/ \E a \in ExtraArgs : CallReduceNone(hint, a)
    \/ CallTypevarIgnorable(hint)
    \/ CallSign(hint)
    \/ CallArgs(hint)
    \/ CallTypevars(hint)

\* Each reducer and tester of PEP 484, and the getters that never raise,
\* applied to one object in every way of passing the other arguments
SpecReducers == InitReducers /\ [][NextReducers]_vars

\* The hints the threads call get_hint_pep_sign() on: two whose sign is found
\* and one whose sign is not
ThreadHints(v) ==
    { h \in Hints(v) : h.id \in {"Union_int_str", "ContextManager_str", "typing_Missing"} }

NextThreads ==
    \/ \E t \in Threads, h \in ThreadHints(pyver) : ThreadCall(t, h)
    \/ \E t \in Threads : ThreadLookup(t)
    \/ \E t \in Threads : ThreadCompute(t)
    \/ \E t \in Threads : ThreadStore(t)

\* Threads calling get_hint_pep_sign() with no lock: the steps of the calls
\* interleave in any order
SpecThreads == Init /\ [][NextThreads]_vars

\* The hints the observed calls of reduce_hint_pep484_deprecated() are
\* made on: the hints of the catalog that typing represents
SignalHints(v) == { h \in Hints(v) : ReprModuleName(h) = <<"typing">> }

NextSignals ==
    \E h \in SignalHints(pyver), p \in {{PyStr("")}, {PyStr("@beartyped f() ")}} :
        ObservedReduceDeprecated(h, p)

\* A sequence of calls of reduce_hint_pep484_deprecated() on the hints of a
\* program, deprecated or not, in any order and with repetitions
SpecSignals == Init /\ [][NextSignals]_vars

\* ------------------------------------------------------------ claims
\* The last call was get_hint_pep_sign(hint)
SignCalled == last.op = "get_hint_pep_sign"

\* The last call ran the body of get_hint_pep_sign() on hint
SignComputed == SignCalled /\ ~last.hit

\* C1: every call of get_hint_pep_sign(h) returns the same sign whatever
\* calls happen in between: the sign a call returns is the cached one, a
\* cached sign never changes, and a call on a cached hint returns the cached
\* sign without running the body again.
C1_RepeatedCallsAgree ==
    [][ /\ (last'.op = "get_hint_pep_sign" /\ last'.out.ok)
            => (hint' \in DOMAIN cache' /\ cache'[hint'] = last'.out.val)
        /\ \A h \in DOMAIN cache : h \in DOMAIN cache' /\ cache'[h] = cache[h]
        /\ (last'.op = "get_hint_pep_sign" /\ hint' \in DOMAIN cache)
            => (last'.hit /\ last'.out = Return(cache[hint'])) ]_vars

\* A repeated call answered from the cache after a call on another hint
C1_Witness ==
    /\ SignCalled /\ last.hit /\ last.out.ok
    /\ Cardinality(DOMAIN cache) >= 2

\* The structural tests of get_hint_pep_sign(), as predicates of the hint
Matches(k, h, v) ==
    CASE k = 1 -> h.none
      [] k = 2 -> h.generic
      [] k = 3 -> h.pep585
      [] k = 4 -> /\ h.isclass
                  /\ ~Truthy(get_hint_pep_args(h, v))
                  /\ ~Truthy(get_hint_pep_typevars(h, v))
      [] k = 5 -> h.forwardref
      [] k = 6 -> h.newtype
      [] k = 7 -> h.typevar

\* Test k is the first structural test that hint h matches
FirstMatch(k, h, v) == Matches(k, h, v) /\ \A j \in 1..(k - 1) : ~Matches(j, h, v)

\* No structural test matches hint h
NoMatch(h, v) == \A j \in 1..7 : ~Matches(j, h, v)

\* What the matching of structural test k gives for hint h
OutcomeOfTest(k, h) ==
    CASE k = 1 -> Return(NoneType)
      [] k = 2 -> Return(Generic)
      [] k = 3 -> Return(CHOOSE o \in h.origin : TRUE)
      [] k = 4 -> IF h.id \in HINT_PEP_SIGNS_TYPE
                  THEN Return(PyObj(h.id))
                  ELSE Raise("BeartypeDecorHintPepSignException", Msg(h.repr, <<>>))
      [] k = 5 -> Return(HINT_PEP484_TYPE_FORWARDREF)
      [] k = 6 -> Return(NewType)
      [] k = 7 -> Return(TypeVar)

\* The outcome is that of the first structural test that matches, the tests
\* evaluated are those up to it in order, and no later one
FirstMatchWins ==
    \A k \in 1..7 :
        (SignComputed /\ hint.pep /\ FirstMatch(k, hint, pyver))
            => /\ last.out = OutcomeOfTest(k, hint)
               /\ last.log = Trace(k + 1)

\* The tests evaluated are (1) to (7) in order and then the representation
ReachedRepr ==
    /\ Len(last.log) > 8
    /\ SubSeq(last.log, 1, 8) = Trace(8)
    /\ last.log[Len(last.log)] = "repr"

C3_ValidatedFirst ==
    SignComputed =>
        /\ last.log # <<>>
        /\ last.log[1] = "die_unless_hint_pep"
        /\ \A i \in 2..Len(last.log) : last.log[i] # "die_unless_hint_pep"
        /\ ~hint.pep =>
             /\ ~last.out.ok
             /\ last.out.exc = "BeartypeDecorHintPepException"
             /\ last.log = <<"die_unless_hint_pep">>
             /\ hint \notin DOMAIN cache

\* The check raised; and the check ran before the test for None
C3_Witness ==
    /\ SignComputed /\ ~hint.pep /\ ~last.out.ok /\ hint.isclass

ReprPrefix(h) ==
    << Partition(h.repr, ".")[1],
       Partition(Partition(h.repr, ".")[3], "[")[1] >>

\* get_hint_pep_sign(h) gets as far as the representation of h
ReachesRepr(h, v) == h.pep /\ NoMatch(h, v) /\ ~(v = 36 /\ h.alias)

\* C6: two hints classified by their representation whose representations
\* start with the same module and unsubscripted attribute get the same sign
\* (or fail alike), whatever their subscripts and type arguments.
C6_SignIgnoresArguments ==
    (SignComputed /\ ReachesRepr(hint, pyver)) =>
        \A h \in AllHints(pyver) :
            (ReachesRepr(h, pyver) /\ ReprPrefix(h) = ReprPrefix(hint)) =>
                LET o == get_hint_pep_sign(h, pyver).out
                IN  o.ok = last.out.ok /\ o.val = last.out.val /\ o.exc = last.out.exc

\* Union[int, str] got typing.Union, and another hint of the same prefix
\* with other arguments and another subscript is classified by its
\* representation too
C6_Witness ==
    /\ SignComputed /\ ReachesRepr(hint, pyver)
    /\ hint.id = "Union_int_str" /\ last.out = Return(PyObj("typing.Union"))
    /\ \E h \in AllHints(pyver) :
          /\ ReachesRepr(h, pyver) /\ ReprPrefix(h) = ReprPrefix(hint)
          /\ h.repr # hint.repr /\ h.args # hint.args

\* A class that is no generic, no PEP 585 hint and has neither type
\* arguments nor type parameters
PlainClass(h, v) ==
    /\ h.isclass /\ ~h.generic /\ ~h.pep585
    /\ ~Truthy(get_hint_pep_args(h, v))
    /\ ~Truthy(get_hint_pep_typevars(h, v))

\* The class itself if it is in HINT_PEP_SIGNS_TYPE, else a sign exception,
\* no sign and no later test
ClassOrSignException ==
    /\ IF hint.id \in HINT_PEP_SIGNS_TYPE
       THEN last.out = Return(PyObj(hint.id))
       ELSE /\ ~last.out.ok
            /\ last.out.exc = "BeartypeDecorHintPepSignException"
            /\ hint \notin DOMAIN cache
    /\ SignComputed => last.log = Trace(5)

\* C7 as claimed: for every such class.
C7_Original == (SignCalled /\ PlainClass(hint, pyver)) => ClassOrSignException

\* C7: for every such class that passes the validity check.
C7_PlainClass ==
    (SignCalled /\ hint.pep /\ PlainClass(hint, pyver)) => ClassOrSignException

\* A class outside the set that is also a forward reference raised the
\* sign exception
C7_Witness ==
    /\ SignComputed /\ hint.pep /\ PlainClass(hint, pyver)
    /\ hint.forwardref /\ hint.id = "int"
    /\ last.out.exc = "BeartypeDecorHintPepSignException"

ArgsCalled == last.op = "get_hint_pep_args"

\* The empty tuple without an __args__ attribute, else its value
ArgsAttributeOrEmpty ==
    /\ hint.args = {} => last.out = Return(PyTuple(<<>>))
    /\ \A a \in hint.args : last.out = Return(a)

C10_ArgsAlwaysTuple ==
    ArgsCalled =>
        /\ last.out.ok /\ last.out.val.tag = "tuple"
        /\ hint.args = {PyNone} => last.out = Return(PyTuple(<<>>))

\* The last call was get_hint_pep_typevars(hint)
TypevarsCalled == last.op = "get_hint_pep_typevars"

\* The type variables of the pseudo-superclasses of hint h, one after another
BasesTypeVars(h) == Flatten([i \in 1..Len(h.bases) |-> BaseTypeVars[h.bases[i]]])

\* Sequence r holds the elements of s once each, in the order they first
\* occur in s
IsDedupOf(r, s) ==
    /\ \A i, j \in 1..Len(r) : r[i] = r[j] => i = j
    /\ {r[i] : i \in 1..Len(r)} = {s[i] : i \in 1..Len(s)}
    /\ \A i, j \in 1..Len(r) : i < j => FirstIndex(s, r[i]) < FirstIndex(s, r[j])

\* The result is the scan of the pseudo-superclasses for a PEP 585 generic
\* and the empty tuple for any other hint
ScanOrEmpty ==
    /\ last.out.ok /\ last.out.val.tag = "tuple"
    /\ IF hint.g585
       THEN IsDedupOf(last.out.val.items, BasesTypeVars(hint))
       ELSE last.out.val.items = <<>>

\* A returned tuple holds no type variable twice
NoDuplicate ==
    (last.out.ok /\ last.out.val.tag = "tuple") =>
        \A i, j \in 1..Len(last.out.val.items) :
            last.out.val.items[i] = last.out.val.items[j] => i = j

BasesCalled == last.op = "get_hint_pep_generic_bases_unerased"

SignResolutionErrors ==
    { SignOfRepr(h).exc :
        h \in { g \in {WithFace(PlainObject, f) : f \in FaceNames} : ~SignOfRepr(g).ok } }

\* C13 as claimed: a generic without pseudo-superclasses raises the
\* exception of an unrecognized module or a missing attribute.
C13_Original ==
    (BasesCalled /\ hint.generic /\ hint.bases = <<>>) =>
        /\ ~last.out.ok
        /\ last.out.exc \in SignResolutionErrors

\* C13: a generic without pseudo-superclasses raises
\* BeartypeDecorHintPepException, the exception of an invalid hint, which is
\* not the exception of an unrecognized module or a missing attribute.
C13_ZeroBasesException ==
    (BasesCalled /\ hint.generic /\ hint.bases = <<>>) =>
        /\ ~last.out.ok
        /\ last.out.exc = get_hint_pep_sign(PlainObject, pyver).out.exc
        /\ last.out.exc \notin SignResolutionErrors

\* A PEP 585 generic without pseudo-superclasses raised, and some hint
\* raises the exception of an unrecognized module
C13_Witness ==
    /\ BasesCalled /\ hint.generic /\ hint.g585 /\ hint.bases = <<>>
    /\ ~last.out.ok
    /\ "BeartypeDecorHintPepSignException" \in SignResolutionErrors

\* The last call was get_hint_pep_stdlib_type_or_none(hint)
StdlibTypeOrNoneCalled == last.op = "get_hint_pep_stdlib_type_or_none"

\* C14: get_hint_pep_stdlib_type_or_none() first gets the sign of the hint
\* from get_hint_pep_sign(); when the sign is in
\* HINT_PEP_SIGNS_TYPE_ORIGIN_STDLIB it returns what the origin getter
\* returns for the hint, and when the sign is not in it, it returns None
\* without calling the origin getter, whatever the __origin__ of the hint.
C14_StdlibOrigin ==
    StdlibTypeOrNoneCalled =>
        LET sign == get_hint_pep_sign(hint, pyver).out
        IN  /\ last.log # <<>> /\ last.log[1] = "get_hint_pep_sign"
            /\ sign.ok => (hint \in DOMAIN cache /\ cache[hint] = sign.val)
            /\ (sign.ok /\ sign.val \in HINT_PEP_SIGNS_TYPE_ORIGIN_STDLIB) =>
                 /\ last.out = Return(get_hint_pep_origin_object_or_none(hint, pyver))
                 /\ last.log = <<"get_hint_pep_sign", "_get_hint_pep_origin_object_or_none">>
            /\ (sign.ok /\ sign.val \notin HINT_PEP_SIGNS_TYPE_ORIGIN_STDLIB) =>
                 /\ last.out = Return(PyNone)
                 /\ last.log = <<"get_hint_pep_sign">>

\* List[int], of sign typing.List, gave list
C14_Witness ==
    /\ StdlibTypeOrNoneCalled /\ hint.id = "List_int" /\ pyver >= 37
    /\ hint \in DOMAIN cache /\ cache[hint] = PyObj("typing.List")
    /\ last.out = Return(PyObj("list"))

\* The last call was get_hint_pep_stdlib_type(hint)
StdlibTypeCalled == last.op = "get_hint_pep_stdlib_type"

\* C15: get_hint_pep_stdlib_type() raises BeartypeDecorHintPepException
\* when get_hint_pep_stdlib_type_or_none() returns None for the hint, returns
\* what that getter returns when it returns anything else, and only raises
\* otherwise when that getter raises; it never returns None.
C15_RequireStdlibOrigin ==
    StdlibTypeCalled =>
        LET or_none == get_hint_pep_stdlib_type_or_none(cache, hint, pyver).out
        IN  /\ (or_none.ok /\ or_none.val = PyNone) =>
                 /\ ~last.out.ok
                 /\ last.out.exc = "BeartypeDecorHintPepException"
            /\ (or_none.ok /\ or_none.val # PyNone) => last.out = or_none
            /\ ~last.out.ok => (~or_none.ok \/ or_none.val = PyNone)
            /\ ~or_none.ok => last.out = or_none
            /\ last.out.ok => last.out.val # PyNone

\* typing.Any, whose sign is cached, raised
C15_Witness ==
    /\ StdlibTypeCalled /\ hint.id = "Any" /\ hint \in DOMAIN cache
    /\ ~last.out.ok /\ last.out.exc = "BeartypeDecorHintPepException"

\* The last call was reduce_hint_pep484_deprecated(hint, ...)
ReduceDeprecatedCalled == last.op = "reduce_hint_pep484_deprecated"

\* The representation of hint h up to its first "[" is one that PEP 585
\* deprecates
IsDeprecatedRepr(h) ==
    \E i \in 0..Len(h.repr) :
        /\ SubSeq(h.repr, 1, i) \in DeprecatedReprs
        /\ \A j \in 1..i : h.repr[j] # "["
        /\ i < Len(h.repr) => h.repr[i + 1] = "["

\* C16: a call of reduce_hint_pep484_deprecated() that returns has issued
\* exactly one warning, a BeartypeDecorHintPep585DeprecationWarning, when
\* the representation of the hint up to its first "[" is deprecated and the
\* interpreter supports PEP 585 (Python >= 3.9), and no warning in every
\* other case.
C16_OneWarningIfDeprecated ==
    (ReduceDeprecatedCalled /\ last.out.ok) =>
        IF IsDeprecatedRepr(hint) /\ pyver >= 39
        THEN /\ Len(emitted) = 1
             /\ emitted[1].cls = "BeartypeDecorHintPep585DeprecationWarning"
        ELSE emitted = <<>>

\* List[int] under Python >= 3.9 issued one warning
C16_Witness ==
    /\ ReduceDeprecatedCalled /\ last.out.ok
    /\ hint.id = "List_int" /\ pyver >= 39 /\ Len(emitted) = 1

\* C17: a call of reduce_hint_pep484_deprecated() that returns, returns the
\* hint it was passed, whether or not it issued a warning and whatever
\* further arguments it was passed.
C17_ReturnsHint ==
    (ReduceDeprecatedCalled /\ last.out.ok) => last.out.val = PyHint(hint)

\* A call passing further arguments issued a warning and returned the hint
C17_Witness ==
    /\ ReduceDeprecatedCalled /\ last.out.ok
    /\ emitted # <<>> /\ passed.extra # <<>>
    /\ last.out.val = PyHint(hint)

\* The outcome of the operation named op on hint h with no other argument
OutcomeOf(op, h) ==
    CASE op = "get_hint_pep_sign" -> get_hint_pep_sign(h, pyver).out
      [] op = "get_hint_pep_args" -> Return(get_hint_pep_args(h, pyver))
      [] op = "get_hint_pep_typevars" -> Return(get_hint_pep_typevars(h, pyver))
      [] op = "reduce_hint_pep484_none" -> reduce_hint_pep484_none(h, <<>>)
      [] op = "is_hint_pep484_typevar_ignorable" ->
            Return(is_hint_pep484_typevar_ignorable(h))

\* The operations other than reduce_hint_pep484_deprecated() that never
\* raise
OtherTotalOperations ==
    {"get_hint_pep_args", "get_hint_pep_typevars", "is_hint_pep484_typevar_ignorable"}

ReduceNoneCalled == last.op = "reduce_hint_pep484_none"

\* C19: reduce_hint_pep484_none() returns NoneType when the hint is None
\* and raises AssertionError, returning nothing, for any other object,
\* whatever further arguments it is passed.
C19_ReduceNone ==
    ReduceNoneCalled =>
        IF hint = NoneHint
        THEN last.out = Return(NoneType)
        ELSE ~last.out.ok /\ last.out.exc = "AssertionError"

\* A hint that is not None, passed with further arguments, raised
C19_Witness ==
    /\ ReduceNoneCalled /\ hint # NoneHint /\ hint.pep /\ passed.extra # <<>>
    /\ ~last.out.ok /\ last.out.exc = "AssertionError"

\* C20: every call of is_hint_pep484_typevar_ignorable() returns True,
\* whatever the object passed and whatever the state, and leaves the sign
\* cache as it was and issues no warning.
C20_AlwaysIgnorable ==
    [][ last'.op = "is_hint_pep484_typevar_ignorable" =>
            /\ last'.out = Return(PyTrue)
            /\ cache' = cache
            /\ emitted' = <<>> ]_vars

\* The tester returned True for a hint that is no type variable, with the
\* sign of the hint in the cache
C20_Witness ==
    /\ last.op = "is_hint_pep484_typevar_ignorable"
    /\ ~hint.typevar /\ hint \in DOMAIN cache
    /\ last.out = Return(PyTrue)

\* ------------------------------------------------------------ C21
\* C21: however the steps of concurrent get_hint_pep_sign() calls
\* interleave, the calls on one hint that have returned have returned the
\* same sign, that sign is the entry of the hint in the cache, the hint of
\* a call that has raised has no entry, and a step never changes or removes
\* the entry a hint already has: a second writer stores an equal value.
ThreadDone(t) == threads[t].pc = "done"

SameOutcomes ==
    \A t1 \in Threads, t2 \in Threads :
        (ThreadDone(t1) /\ ThreadDone(t2) /\ threads[t1].hint = threads[t2].hint)
            => threads[t1].out = threads[t2].out

ReturnedIsCached ==
    \A t \in Threads :
        (ThreadDone(t) /\ threads[t].out.ok)
            => /\ threads[t].hint \in DOMAIN cache
               /\ cache[threads[t].hint] = threads[t].out.val

RaisedIsNotCached ==
    \A t \in Threads :
        (ThreadDone(t) /\ ~threads[t].out.ok) => threads[t].hint \notin DOMAIN cache

EntriesKept ==
    \A h \in DOMAIN cache : h \in DOMAIN cache' /\ cache'[h] = cache[h]

C21_ConcurrentCallsAgree ==
    /\ [](SameOutcomes /\ ReturnedIsCached /\ RaisedIsNotCached)
    /\ [][EntriesKept]_vars

\* Two threads that both missed the cache on the same hint have both
\* stored its sign and returned
C21_Witness ==
    \E t1 \in Threads, t2 \in Threads :
        /\ t1 # t2
        /\ ThreadDone(t1) /\ ThreadDone(t2)
        /\ threads[t1].hint = threads[t2].hint
        /\ threads[t1].miss /\ threads[t2].miss
        /\ threads[t1].out.ok /\ threads[t2].out.ok
        /\ threads[t1].hint \in DOMAIN cache

\* ------------------------------------------------------------ C22
\* C22: the sign cache only grows. Every entry is the sign of its hint;
\* no call of any function removes an entry or changes its value; a call
\* of get_hint_pep_sign() that returns leaves the hint in the cache with
\* the sign returned; and the functions that do not call
\* get_hint_pep_sign() leave the cache as it is.
SignCallers ==
    {"get_hint_pep_sign", "get_hint_pep_stdlib_type_or_none", "get_hint_pep_stdlib_type"}

EntriesAreSigns ==
    \A h \in DOMAIN cache : get_hint_pep_sign(h, pyver).out = Return(cache[h])

CacheGrows ==
    /\ DOMAIN cache \subseteq DOMAIN cache'
    /\ \A h \in DOMAIN cache : cache'[h] = cache[h]
    /\ (last'.op = "get_hint_pep_sign" /\ last'.out.ok)
          => (hint' \in DOMAIN cache' /\ cache'[hint'] = last'.out.val)
    /\ last'.op \notin SignCallers => cache' = cache

C22_CacheOnlyGrows == []EntriesAreSigns /\ [][CacheGrows]_vars

\* A full cache after a call of a function that is not get_hint_pep_sign()
\* on a hint the cache holds
C22_Witness ==
    /\ Cardinality(DOMAIN cache) = MaxCache
    /\ hint \in DOMAIN cache
    /\ last.op = "reduce_hint_pep484_deprecated"

\* ------------------------------------------------------------ C23
\* The user-defined generic classes of the Examples of the docstring of
\* get_hint_pep_sign(): Duplicity(typing.Iterable[T], typing.Container[T])
\* and Genericity(typing.Generic[T])
IsDuplicity(h) ==
    h.pep /\ ~h.none /\ h.generic /\ h.isclass /\ ~h.g585
    /\ h.bases = <<"Iterable[T]", "Container[T]">>

IsGenericity(h) ==
    h.pep /\ ~h.none /\ h.generic /\ h.isclass /\ ~h.g585
    /\ h.bases = <<"Generic[T]">>

ModuleOfRepr(r) ==
    LET i == FirstIndex(r, ".")
    IN  IF i = 0 THEN r ELSE SubSeq(r, 1, i - 1)

RawNameOfRepr(r) ==
    LET i == FirstIndex(r, ".")
        path == IF i = 0 THEN <<>> ELSE SubSeq(r, i + 1, Len(r))
        j == FirstIndex(path, "[")
    IN  IF j = 0 THEN path ELSE SubSeq(path, 1, j - 1)

CorrectedName(raw) ==
    IF raw = <<"AbstractContextManager">> THEN <<"ContextManager">>
    ELSE IF raw = <<"AbstractAsyncContextManager">> THEN <<"AsyncContextManager">>
    ELSE raw

\* C24: when no test matches, the sign is the attribute of the module
\* named before the first "." of the representation whose name is the text
\* between that "." and the first "[" after it, corrected by the table of
\* bad names; when the table corrects the name, the sign is not an object
\* of the uncorrected name.
C24_FallbackParsing ==
    LET module == ModuleOfRepr(hint.repr)
        raw == RawNameOfRepr(hint.repr)
        name == CorrectedName(raw)
    IN  (/\ SignComputed /\ ReachesRepr(hint, pyver)
         /\ module \in HINT_PEP_MODULE_NAMES
         /\ name \in DOMAIN ModuleNamespace[module])
            => /\ last.out = Return(PyObj(ModuleNamespace[module][name]))
               /\ name # raw =>
                    last.out.val.name \notin
                        {"typing.AbstractContextManager",
                         "typing.AbstractAsyncContextManager",
                         "contextlib.AbstractContextManager"}

\* typing.AbstractContextManager[str] got typing.ContextManager
C24_Witness ==
    /\ SignComputed /\ ReachesRepr(hint, pyver)
    /\ RawNameOfRepr(hint.repr) = <<"AbstractContextManager">>
    /\ last.out = Return(PyObj("typing.ContextManager"))

\* ------------------------------------------------------------ C25
\* A class that is no typing object
IsPlainClass(val) == val.tag = "object" /\ val.name \in StandardClasses

Rank(f) ==
    CASE f = "get_hint_pep_stdlib_type" -> 4
      [] f = "get_hint_pep_stdlib_type_or_none" -> 3
      [] f = "get_hint_pep_sign" -> 2
      [] f = "get_hint_pep_generic_type_or_none" -> 2
      [] f = "get_hint_pep_generic_bases_unerased" -> 2
      [] f = "_get_hint_pep_origin_object_or_none" -> 1
      [] OTHER -> 0

\* The calls the last operation made go to functions of lower rank, and
\* they are few
CallsDescend ==
    /\ \A i \in DOMAIN last.log : Rank(last.log[i]) < Rank(last.op)
    /\ Len(last.log) <= Len(SignTests) + 2

\* A call of get_hint_pep_sign() calls neither itself nor the getters of
\* the standard class
SignCallsNoGetter ==
    SignCalled =>
        \A i \in DOMAIN last.log :
            last.log[i] \notin
                {"get_hint_pep_sign", "get_hint_pep_stdlib_type_or_none",
                 "get_hint_pep_stdlib_type", "_get_hint_pep_origin_object_or_none"}

\* The last operation called the origin getter
OriginGetterCalled ==
    \E i \in DOMAIN last.log : last.log[i] = "_get_hint_pep_origin_object_or_none"

\* C26 as stated: every operation ends, no function calls a function that
\* calls it, get_hint_pep_sign() calls no getter of the standard class, and
\* the origin getter reads one attribute.
C26_Original ==
    /\ CallsDescend
    /\ SignCallsNoGetter
    /\ OriginGetterCalled => Len(OriginReads(hint, pyver)) = 1

\* C26: every operation ends after a bounded number of calls, every call
\* goes to a function of lower rank (so no function calls a function that
\* calls it), get_hint_pep_sign() calls no getter of the standard class, and
\* the origin getter calls nothing and reads one attribute under
\* Python >= 3.7, one or two under Python 3.6: __extra__, and __origin__
\* too when __extra__ is None.
C26_CallsDescend ==
    /\ CallsDescend
    /\ SignCallsNoGetter
    /\ OriginGetterCalled =>
         /\ Len(OriginReads(hint, pyver)) \in {1, 2}
         /\ IS_PYTHON_AT_LEAST_3_7(pyver) => OriginReads(hint, pyver) = <<"__origin__">>
         /\ Len(OriginReads(hint, pyver)) = 2 =>
              (IS_PYTHON_3_6(pyver) /\ hint.extra = {PyNone})

\* Under Python 3.6 the origin getter read __extra__, found None, and read
\* __origin__ of a subscripted user-defined generic
C26_Witness ==
    /\ last.op = "get_hint_pep_generic_type_or_none"
    /\ OriginGetterCalled
    /\ pyver = 36 /\ hint.generic /\ ~hint.isclass
    /\ OriginReads(hint, pyver) = <<"__extra__", "__origin__">>

\* ------------------------------------------------------------ C27
\* The number of calls of function f in a log
Count(log, f) == Cardinality({i \in DOMAIN log : log[i] = f})

\* C27: when get_hint_pep_sign() raises for a hint, so do
\* get_hint_pep_stdlib_type_or_none() and get_hint_pep_stdlib_type(), with
\* the same exception and no value; each of the two calls
\* get_hint_pep_sign() once, the latter through one call of the former.
C27_ErrorsPropagate ==
    LET sign == get_hint_pep_sign(hint, pyver).out
        or_none == get_hint_pep_stdlib_type_or_none(cache, hint, pyver)
    IN  /\ ((StdlibTypeOrNoneCalled \/ StdlibTypeCalled) /\ ~sign.ok)
              => /\ ~last.out.ok
                 /\ last.out = sign
        /\ StdlibTypeOrNoneCalled => Count(last.log, "get_hint_pep_sign") = 1
        /\ StdlibTypeCalled =>
              /\ Count(last.log, "get_hint_pep_stdlib_type_or_none") = 1
              /\ Count(last.log, "get_hint_pep_sign") = 0
              /\ Count(or_none.log, "get_hint_pep_sign") = 1

\* get_hint_pep_stdlib_type_or_none() raised the sign exception of a typing
\* attribute that does not exist
C27_Witness ==
    /\ StdlibTypeOrNoneCalled
    /\ ReachesRepr(hint, pyver)
    /\ ~last.out.ok
    /\ last.out.exc = "BeartypeDecorHintPepSignException"
    /\ last.out.msg.path # <<>>

\* ------------------------------------------------------------ C28
\* C28: the message of every BeartypeDecorHintPepSignException that
\* get_hint_pep_sign() raises contains the representation of the hint, and
\* when the exception is for an attribute that the module does not have,
\* the message names the module and the attribute that the representation
\* names.
C28_ErrorNamesPath ==
    (SignComputed /\ ~last.out.ok
     /\ last.out.exc = "BeartypeDecorHintPepSignException")
        => /\ last.out.msg.repr = hint.repr
           /\ (ReachesRepr(hint, pyver)
               /\ ModuleOfRepr(hint.repr) \in HINT_PEP_MODULE_NAMES)
                 => last.out.msg.path =
                        ModuleOfRepr(hint.repr) \o <<".">> \o RawNameOfRepr(hint.repr)

\* ------------------------------------------------------------ C29
\* The last call was get_hint_pep_generic_type_or_none(hint)
GenericTypeCalled == last.op = "get_hint_pep_generic_type_or_none"

\* C29: get_hint_pep_generic_type_or_none() returns what the origin getter
\* returns when that is a class, otherwise the hint when the hint is a
\* class, otherwise None; so it returns a class or None, the origin before
\* the hint, and never raises. It is memoized: the value returned is the
\* entry of the hint in its cache, and a call on a hint that has an entry
\* returns the entry without calling the origin getter.
C29_GenericType ==
    LET hint_origin == get_hint_pep_origin_object_or_none(hint, pyver)
    IN  GenericTypeCalled =>
            /\ last.out.ok
            /\ IsInstanceOfType(hint_origin, pyver) => last.out.val = hint_origin
            /\ (~IsInstanceOfType(hint_origin, pyver) /\ hint.isclass)
                  => last.out.val = PyHint(hint)
            /\ (~IsInstanceOfType(hint_origin, pyver) /\ ~hint.isclass)
                  => last.out.val = PyNone
            /\ \/ last.out.val = PyNone
               \/ IsInstanceOfType(last.out.val, pyver)
               \/ last.out.val = PyHint(hint) /\ hint.isclass
            /\ hint \in DOMAIN typecache /\ typecache[hint] = last.out.val
            /\ last.hit => last.log = <<>>

C29_Memoized ==
    [][ /\ \A h \in DOMAIN typecache :
              h \in DOMAIN typecache' /\ typecache'[h] = typecache[h]
        /\ (last'.op = "get_hint_pep_generic_type_or_none" /\ hint' \in DOMAIN typecache)
              => (last'.hit /\ last'.out = Return(typecache[hint'])) ]_vars

C29_GenericTypeOrNone == []C29_GenericType /\ C29_Memoized

\* A hint that is a class and whose origin is a class too gave the origin,
\* from the cache
C29_Witness ==
    /\ GenericTypeCalled /\ last.hit
    /\ hint.isclass
    /\ IsInstanceOfType(get_hint_pep_origin_object_or_none(hint, pyver), pyver)
    /\ last.out.val = get_hint_pep_origin_object_or_none(hint, pyver)
    /\ last.out.val # PyHint(hint)

\* ------------------------------------------------------------ C30
\* C30: reduce_hint_pep484_deprecated() keeps nothing between calls: after
\* any sequence of calls, the warnings requested of issue_warning() are as
\* many as the calls made on hints whose representation up to the first "["
\* is deprecated, repeated calls on one hint included; the calls on other
\* hints request none, and under an interpreter without PEP 585 no call
\* requests any.
C30_OneSignalPerCall ==
    /\ requested.signals = requested.deprecated
    /\ requested.deprecated <= requested.calls
    /\ pyver < 39 => requested.signals = 0
    /\ (requested.calls > 0 /\ last.out.ok) =>
          Len(emitted) = (IF IsDeprecatedRepr(hint) /\ pyver >= 39 THEN 1 ELSE 0)

\* Three calls on deprecated hints among four calls have requested three
\* warnings, the last of them a call on a hint that is not deprecated
C30_Witness ==
    /\ requested.calls = 4
    /\ requested.deprecated = 3
    /\ requested.signals = 3
    /\ ~IsDeprecatedRepr(hint)
    /\ emitted = <<>>
====
